---- MODULE Spec2Model ----
(***************************************************************************)
(* Model of netflix_scraper.py: the price-text parser                      *)
(* (extract_price_details), the per-country scrape (process_country) and   *)
(* the batched orchestration loop (main).                                  *)
(*                                                                         *)
(* Python strings are sequences of one-character strings, so that strip,   *)
(* split, lower-casing and the regular expressions are computed character  *)
(* by character.                                                           *)
(***************************************************************************)
EXTENDS Integers, Sequences, FiniteSets, TLC

VARIABLES
    \* ---- extract_price_details, called on its own (SpecParse) ----
    ppc,          \* "call" before the call, "ret" after it
    price_text,   \* the argument
    parsed,       \* the returned triple <<currency, amount, note>>
    \* ---- main (Spec) ----
    mainPc,       \* position of main between two awaits
    countries,    \* the list read from the page (labels)
    i,            \* loop variable of "for i in range(0, len(countries), batch_size)"
    pages,        \* the tabs opened for the current batch (page ids)
    tasks,        \* the coroutines of the current batch
    results,      \* the running list of records
    exported,     \* the lists handed to DataFrame/to_excel, one per call
    nOpened,      \* browser: number of pages opened so far; ids are 0, 1, 2, ...
    closes,       \* browser: page id -> number of close() calls that completed
    finished,     \* history: page ids whose scrape has returned
    pj,           \* position of "for p in pages" (lines 128-129)
    observe,      \* TRUE when a single scrape is observed (SpecScrape)
    served,       \* history, kept when observe: page id -> what the browser
                  \* answered to the calls made on that page, in order
    \* ---- the batching loop alone, on long lists (SpecBatch) ----
    bpc,          \* position in the loop
    blist,        \* the country list
    bi,           \* loop variable i
    bbatches      \* history: per iteration of the outer loop, the countries
                  \* a tab and a coroutine were created for

vars == <<ppc, price_text, parsed, mainPc, countries, i, pages, tasks, results,
          exported, nOpened, closes, finished, pj, observe, served, bpc, blist, bi, bbatches>>

parseVars == <<ppc, price_text, parsed>>
mainVars == <<mainPc, countries, i, pages, tasks, results, exported, nOpened,
              closes, finished, pj, observe, served>>
batchVars == <<bpc, blist, bi, bbatches>>

(***************************************************************************)
(* Python string primitives                                                *)
(***************************************************************************)
Min(a, b) == IF a <= b THEN a ELSE b

UpperLetters ==
    <<"A","B","C","D","E","F","G","H","I","J","K","L","M",
      "N","O","P","Q","R","S","T","U","V","W","X","Y","Z">>
LowerLetters ==
    <<"a","b","c","d","e","f","g","h","i","j","k","l","m",
      "n","o","p","q","r","s","t","u","v","w","x","y","z">>

\* str.lower() on one character
LowerChar(c) ==
    IF \E k \in DOMAIN UpperLetters : UpperLetters[k] = c
    THEN LowerLetters[CHOOSE k \in DOMAIN UpperLetters : UpperLetters[k] = c]
    ELSE c

\* str.lower()
Lower(s) == [k \in DOMAIN s |-> LowerChar(s[k])]

\* the characters str.strip() removes and \s matches
IsSpace(c) == c \in {" ", "\t", "\n"}

\* \d
IsDigit(c) == c \in {"0","1","2","3","4","5","6","7","8","9"}

\* "sub in s"
Contains(s, sub) ==
    \E p \in 1..(Len(s) - Len(sub) + 1) : SubSeq(s, p, p + Len(sub) - 1) = sub

\* str.strip()
Strip(s) ==
    IF \A k \in DOMAIN s : IsSpace(s[k])
    THEN <<>>
    ELSE LET a == CHOOSE k \in DOMAIN s :
                      ~IsSpace(s[k]) /\ \A j \in 1..(k - 1) : IsSpace(s[j])
             b == CHOOSE k \in DOMAIN s :
                      ~IsSpace(s[k]) /\ \A j \in (k + 1)..Len(s) : IsSpace(s[j])
         IN  SubSeq(s, a, b)

\* line 29 without the replace
RemoveChar_Keep(s, c) == s

\* str.replace(c, "") for a one-character c
RemoveChar(s, c) == SelectSeq(s, LAMBDA x : x # c)

\* Python slice s[a:b] (0-based, end exclusive, clamped to the length)
Slice(s, a, b) == SubSeq(s, a + 1, Min(b, Len(s)))

S_month == <<"m","o","n","t","h">>
S_Unknown == <<"U","n","k","n","o","w","n">>
S_NA == <<"N","/","A">>
S_ERROR == <<"E","R","R","O","R">>

(***************************************************************************)
(* extract_price_details                                                   *)
(***************************************************************************)
\* re "/\s*month" with IGNORECASE, tried at position p: the position just
\* after the match, or 0 when it does not match there
MonthMatchEnd(text, p) ==
    IF p > Len(text) \/ text[p] # "/"
    THEN 0
    ELSE LET rest == {k \in (p + 1)..Len(text) : ~IsSpace(text[k])}
         IN  IF rest = {}
             THEN 0
             ELSE LET q == CHOOSE k \in rest : \A j \in rest : k <= j
                  IN  IF q + 4 <= Len(text)
                         /\ Lower(SubSeq(text, q, q + 4)) = S_month
                      THEN q + 5
                      ELSE 0

\* re.split(r"/\s*month", text, flags=re.IGNORECASE): every occurrence splits
RECURSIVE ReSplitMonth(_)
ReSplitMonth(text) ==
    LET hits == {p \in DOMAIN text : MonthMatchEnd(text, p) # 0}
    IN  IF hits = {}
        THEN <<text>>
        ELSE LET p == CHOOSE k \in hits : \A j \in hits : k <= j
                 e == MonthMatchEnd(text, p)
             IN  <<SubSeq(text, 1, p - 1)>>
                     \o ReSplitMonth(SubSeq(text, e, Len(text)))

\* re.search of a one-class pattern "[...]+", hits being the positions of s
\* whose character is in the class: the first maximal run of such
\* characters, <<>> standing for "no match"
FirstRun(s, hits) ==
    IF hits = {}
    THEN <<>>
    ELSE LET a == CHOOSE k \in hits : \A j \in hits : k <= j
             stops == {k \in a..Len(s) : k \notin hits}
             b == IF stops = {}
                  THEN Len(s)
                  ELSE (CHOOSE k \in stops : \A j \in stops : k <= j) - 1
         IN  SubSeq(s, a, b)

\* [\d,.]
IsNumberChar(c) == IsDigit(c) \/ c \in {",", "."}
\* line 27 matching letters only, [A-Za-z]
IsCurrencyChar_Letters(c) ==
    \E k \in DOMAIN UpperLetters : c \in {UpperLetters[k], LowerLetters[k]}

\* [^\d\s,.]
IsCurrencyChar(c) == ~IsDigit(c) /\ ~IsSpace(c) /\ c \notin {",", "."}

\* line 14 with the lower-casing forgotten
NoMonth_CaseSensitive(text) == text = <<>> \/ ~Contains(text, S_month)

\* line 14: the guard of the early return
NoMonth(text) == text = <<>> \/ ~Contains(Lower(text), S_month)

\* line 15 returning the trimmed text
EarlyReturn_Stripped(text) == <<S_Unknown, <<>>, Strip(text)>>

\* line 15: the early return
EarlyReturn(text) == <<S_Unknown, <<>>, text>>

extract_price_details(text0) ==
    IF NoMonth(text0)
    THEN EarlyReturn(text0)
    ELSE LET text == Strip(text0)
             month_split == ReSplitMonth(text)
             price_part == Strip(month_split[1])
             note_part == IF Len(month_split) > 1 THEN Strip(month_split[2]) ELSE <<>>
             number == FirstRun(price_part,
                                {p \in DOMAIN price_part : IsNumberChar(price_part[p])})
             curr == FirstRun(price_part,
                              {p \in DOMAIN price_part : IsCurrencyChar(price_part[p])})
             amount == IF number # <<>> THEN RemoveChar(number, ",") ELSE <<>>
             currency == IF curr # <<>> THEN curr ELSE S_Unknown
         IN  <<currency, amount, note_part>>

(***************************************************************************)
(* SpecParse: extract_price_details applied to bounded inputs              *)
(***************************************************************************)
\* the pieces an input is built from: single characters and month markers
Pieces ==
    { <<"$">>, <<"1">>, <<",">>, <<".">>, <<" ">>, <<"x">>, <<"/">>,
      <<"/","m","o","n","t","h">>,
      <<"/"," ","M","o","n","t","h">>,
      <<"M","O","N","T","H">>,
      <<"m","o","n","t">> }

\* bound: number of pieces in an input
MaxPieces == 3

RECURSIVE Concats(_)
Concats(n) ==
    IF n = 0
    THEN {<<>>}
    ELSE LET shorter == Concats(n - 1)
         IN  shorter \cup {s \o p : s \in shorter, p \in Pieces}

\* inputs of the documented examples
Ex_Euro ==
    <<"€","1","3",",","9","9"," ","/"," ","M","o","n","t","h"," ","f","o",
      "r"," ","n","e","w"," ","m","e","m","b","e","r","s">>
Ex_Rs ==
    <<"R","s",".","/","m","o","n","t","h">>
Ex_Two ==
    <<"$","1","/","m","o","n","t","h",","," ","t","h","e","n"," ","$","2",
      " ","/"," ","M","O","N","T","H"," ","a","f","t","e","r">>

ExampleInputs == {Ex_Euro, Ex_Rs, Ex_Two}

ParseInputs == Concats(MaxPieces) \cup ExampleInputs

(***************************************************************************)
(* process_country                                                         *)
(***************************************************************************)
\* A record of the output, lines 70-77
Record(country, plan, price, currency, amount, note) ==
    [Country |-> country, Plan |-> plan, Price |-> price,
     Currency |-> currency, Amount |-> amount, Note |-> note]

\* line 79: the fallback record
NARecord(country) == Record(country, S_NA, S_NA, <<>>, <<>>, <<>>)

\* line 86 leaving the message out
ErrorRecord_NoMessage(country, e) == Record(country, S_ERROR, <<>>, <<>>, <<>>, <<>>)

\* line 86: the record of a failed scrape, str(e) in Price
ErrorRecord(country, e) == Record(country, S_ERROR, e, <<>>, <<>>, <<>>)

\* what a call of process_country ends with: a returned list, or an exception
Return(value) == [raised |-> FALSE, value |-> value]
Raise(e) == [raised |-> TRUE, value |-> e]

\* lines 84-86 returning the rows collected so far together with the ERROR row
Except_KeepRows(country, e, acc) == Return(acc \o <<ErrorRecord(country, e)>>)

\* lines 84-86 re-raising after the print
Except_Reraise(country, e, acc) == Raise(e)

\* lines 84-86: "except Exception as e"; acc is the local list "results" at
\* the time of the exception, which the handler does not use
Except(country, e, acc) == Return(<<ErrorRecord(country, e)>>)

\* li.text.strip().split(":", 1) for a text that contains ":"
SplitColon(text) ==
    LET t == Strip(text)
        p == CHOOSE k \in DOMAIN t : t[k] = ":" /\ \A j \in 1..(k - 1) : t[j] # ":"
    IN  <<SubSeq(t, 1, p - 1), SubSeq(t, p + 1, Len(t))>>

\* line 73 storing the text after the colon as it is
PriceField_Raw(text) == text

\* line 73: "Price": price_text.strip()
PriceField(text) == Strip(text)

\* lines 67-77: the rows one list item adds to "results"
RowsOfItem(country, li) ==
    IF \E k \in DOMAIN li : li[k] = ":"
    THEN LET parts == SplitColon(li)
             d == extract_price_details(Strip(parts[2]))
         IN  <<Record(country, Strip(parts[1]), PriceField(parts[2]), d[1], d[2], d[3])>>
    ELSE <<>>

\* lines 66-77: the loop over the first n items
RECURSIVE RowsOfItems(_, _, _)
RowsOfItems(country, lis, n) ==
    IF n = 0
    THEN <<>>
    ELSE RowsOfItems(country, lis, n - 1) \o RowsOfItem(country, lis[n])

S_Pricing == <<"P","r","i","c","i","n","g">>

\* A document as BeautifulSoup sees it: its h3 and ul elements in document
\* order, an h3 with its string, a ul with the texts of its li elements
H3(text) == [tag |-> "h3", text |-> text, items |-> <<>>]
UL(items) == [tag |-> "ul", text |-> <<>>, items |-> items]

\* the smallest element of a non-empty set of positions
First(S) == CHOOSE k \in S : \A j \in S : k <= j

\* line 61: soup.find("h3", string=lambda s: s and "Pricing" in s);
\* 0 stands for None
FindPricingHeader(doc) ==
    LET hits == {k \in DOMAIN doc : doc[k].tag = "h3" /\ Contains(doc[k].text, S_Pricing)}
    IN  IF hits = {} THEN 0 ELSE First(hits)

\* line 64: pricing_header.find_next("ul"); 0 stands for None
FindNextUl(doc, h) ==
    LET hits == {k \in DOMAIN doc : k > h /\ doc[k].tag = "ul"}
    IN  IF hits = {} THEN 0 ELSE First(hits)

\* lines 63-66: the items the loop walks; none without heading or list
ListItems(doc) ==
    LET h == FindPricingHeader(doc)
        u == IF h # 0 THEN FindNextUl(doc, h) ELSE 0
    IN  IF u # 0 THEN doc[u].items ELSE <<>>

\* line 78 without the fallback
Fallback_Missing(country, rows) == rows

\* lines 78-79: "if not results: results.append(N/A record)"
Fallback(country, rows) == IF rows = <<>> THEN <<NARecord(country)>> ELSE rows

\* lines 60-82, run without suspension once page.content() has returned.
\* failAt = k > 0: reading the k-th item raises e; failAt = 0: nothing raises.
ParseContent(country, page, failAt, e) ==
    LET lis == ListItems(page)
    IN  IF failAt \in 1..Len(lis)
        THEN Except(country, e, RowsOfItems(country, lis, failAt - 1))
        ELSE Return(Fallback(country, RowsOfItems(country, lis, Len(lis))))

(***************************************************************************)
(* The environment of a run: what the browser may answer                   *)
(***************************************************************************)
\* bound: length of the country list the page exposes
MaxCountries == 6

AllCountries ==
    <<"Canada", "Wakanda", "Brazil", "Chile", "Egypt", "France", "Ghana",
      "Haiti", "India", "Japan">>

\* the lists window.netflix.data.article.allCountries may hold: distinct labels
CountryLists == {SubSeq(AllCountries, 1, n) : n \in 0..MaxCountries}

\* str(e) of the exceptions the browser calls raise
ExcMessages == { <<"T","i","m","e","o","u","t">>, <<"c","l","o","s","e","d">> }

\* texts of list items: a priced plan, a price without currency sign, an
\* item without colon, a price without "month" in an item with whitespace
\* around its parts, a plan named "ERROR", a currency named "Unknown"
Li_Std ==
    <<"S","t","a","n","d","a","r","d",":"," ","$","1","6",".","4","9","/","m","o","n","t","h">>
Li_Pro == <<"P","r","o",":","1",",","9","9","9"," ","/","m","o","n","t","h"," ","H","D">>
Li_Ads == <<"a","d","s">>
Li_NA == <<" ","N","/","A"," ",":"," ","N","/","A"," ">>
Li_Err == <<"E","R","R","O","R",":","c","l","o","s","e","d">>
Li_Unk == <<"U",":","U","n","k","n","o","w","n","/","m","o","n","t","h">>

S_pricing_lc == <<"p","r","i","c","i","n","g">>

\* the documents page.content() returns in a run of main: no heading, a
\* heading without a list, a list without a priced item, lists with plans
Pages ==
    { <<>>,
      <<H3(S_Pricing)>>,
      <<H3(S_Pricing), UL(<<Li_Ads>>)>>,
      <<H3(S_Pricing), UL(<<Li_Std>>)>>,
      <<H3(S_Pricing), UL(<<Li_Ads, Li_Std>>)>>,
      <<H3(S_Pricing), UL(<<Li_Std, Li_Pro>>)>> }

\* bound: number of items of a list given to a single scrape
MaxItems == 2

RECURSIVE SeqsUpTo(_, _)
SeqsUpTo(S, n) ==
    IF n = 0
    THEN {<<>>}
    ELSE LET shorter == SeqsUpTo(S, n - 1)
         IN  shorter \cup {Append(q, x) : q \in shorter, x \in S}

\* the lists of a document given to a single scrape
ScrapeLists == {UL(lis) : lis \in SeqsUpTo({Li_Std, Li_Pro, Li_Ads, Li_NA, Li_Err, Li_Unk}, MaxItems)}

\* the documents given to a single observed scrape: no h3 or an h3 that
\* does not match, with or without a list; the Pricing heading alone, after
\* a list, before a list, after another h3, before two lists
ScrapePages ==
    {<<>>, <<H3(S_pricing_lc)>>, <<H3(S_Pricing)>>}
        \cup {<<u>> : u \in ScrapeLists}
        \cup {<<H3(S_pricing_lc), u>> : u \in ScrapeLists}
        \cup {<<u, H3(S_Pricing)>> : u \in ScrapeLists}
        \cup {<<H3(S_Pricing), u>> : u \in ScrapeLists}
        \cup {<<H3(S_pricing_lc), H3(S_Pricing), u>> : u \in ScrapeLists}
        \cup {<<H3(S_Pricing), u, UL(<<Li_Std>>)>> : u \in ScrapeLists}

(***************************************************************************)
(* process_country as a coroutine: one action per stretch between awaits   *)
(***************************************************************************)
\* line 112
batch_size == 5

PageIsOpen(p) == p \in DOMAIN closes /\ closes[p] = 0

\* the coroutine object created at line 122; it runs only once gathered
Coroutine(country, tab) == [country |-> country, tab |-> tab, pc |-> "goto", ret |-> <<>>]

\* line 122 scheduling the coroutine at once (asyncio.create_task): it runs
\* while main is still opening the other tabs
Running_Eager(k) == mainPc \in {"open", "gather"} /\ k \in DOMAIN tasks

\* lines 122-124: a coroutine object runs only while main awaits the gather
Running(k) == mainPc = "gather" /\ k \in DOMAIN tasks

\* the coroutine ends with outcome o
Finish(k, o) ==
    /\ tasks' = [tasks EXCEPT ![k].pc = IF o.raised THEN "raised" ELSE "done",
                              ![k].ret = o.value]
    /\ finished' = finished \cup {tasks[k].tab}

\* history: one entry per browser call observed on page p
Log(p, entry) ==
    served' = IF observe THEN [served EXCEPT ![p] = Append(@, entry)] ELSE served

\* a browser call that must succeed: on success the coroutine moves to
\* "next"; on failure (always, on a closed page) control goes to line 84
MustStep(k, from, next) ==
    /\ Running(k)
    /\ tasks[k].pc = from
    /\ \/ /\ PageIsOpen(tasks[k].tab)
          /\ tasks' = [tasks EXCEPT ![k].pc = next]
          /\ Log(tasks[k].tab,
                 [step |-> from, ok |-> TRUE, e |-> <<>>, page |-> <<>>, failAt |-> 0])
          /\ UNCHANGED finished
       \/ \E e \in ExcMessages :
             /\ Finish(k, Except(tasks[k].country, e, <<>>))
             /\ Log(tasks[k].tab,
                    [step |-> from, ok |-> FALSE, e |-> e, page |-> <<>>, failAt |-> 0])
    /\ UNCHANGED <<mainPc, countries, i, pj, pages, results, exported, nOpened, closes>>
    /\ UNCHANGED <<observe, parseVars, batchVars>>

\* lines 42-43: goto (timeout 60 s) and the 2 s wait
PC_Goto(k) ==
    /\ Running(k)
    /\ MustStep(k, "goto", "cookie")

\* lines 46-49 and 100-103 without the inner try: the exception of the click
\* goes to the enclosing handler
AfterCookie_Propagate(ok, next, handler) == IF ok THEN next ELSE handler

\* lines 46-49 and 100-103: "try: click(...) except: pass"; where control is
\* once the statement is over, the click having succeeded (ok) or raised
AfterCookie(ok, next, handler) == next

\* lines 46-49: the click on the cookie button (timeout 3 s)
PC_Cookie(k) ==
    /\ Running(k)
    /\ tasks[k].pc = "cookie"
    /\ \E ok \in BOOLEAN :
          /\ IF AfterCookie(ok, "select", "except") = "select"
             THEN /\ tasks' = [tasks EXCEPT ![k].pc = "select"]
                  /\ UNCHANGED finished
             ELSE \E e \in ExcMessages : Finish(k, Except(tasks[k].country, e, <<>>))
          /\ Log(tasks[k].tab,
                 [step |-> "cookie", ok |-> ok, e |-> <<>>, page |-> <<>>, failAt |-> 0])
    /\ UNCHANGED <<mainPc, countries, i, pj, pages, results, exported, nOpened, closes>>
    /\ UNCHANGED <<observe, parseVars, batchVars>>

\* line 52: the click that opens the country selector (timeout 5 s)
PC_Select(k) ==
    /\ Running(k)
    /\ MustStep(k, "select", "input")

\* lines 53-57: wait for the input, fill, type the label, press Enter, wait 3 s
PC_Input(k) ==
    /\ Running(k)
    /\ MustStep(k, "input", "content")

\* what page.content() and the parse may meet on the documents of ps: the
\* document, the item whose reading raises (0: none) and the exception
ContentInputs(ps) ==
    UNION {{<<page, failAt, IF failAt = 0 THEN <<>> ELSE e>> :
               failAt \in 0..Len(ListItems(page)), e \in ExcMessages} :
           page \in ps}

MainInputs == ContentInputs(Pages)
ScrapeInputs == ContentInputs(ScrapePages)

\* ParseContent tabulated over the inputs of a run of main
ParseContentTable ==
    [c \in {AllCountries[n] : n \in DOMAIN AllCountries} |->
        [inp \in MainInputs |-> ParseContent(c, inp[1], inp[2], inp[3])]]

\* lines 59-82: page.content(), then the parse, which does not suspend; the
\* document is one of "inputs"
PC_ContentFrom(k, inputs) ==
    /\ Running(k)
    /\ tasks[k].pc = "content"
    /\ \/ /\ PageIsOpen(tasks[k].tab)
          /\ \E inp \in inputs :
                /\ Finish(k, IF observe
                             THEN ParseContent(tasks[k].country, inp[1], inp[2], inp[3])
                             ELSE ParseContentTable[tasks[k].country][inp])
                /\ Log(tasks[k].tab,
                       [step |-> "content", ok |-> TRUE, e |-> inp[3],
                        page |-> inp[1], failAt |-> inp[2]])
       \/ \E e \in ExcMessages :
             /\ Finish(k, Except(tasks[k].country, e, <<>>))
             /\ Log(tasks[k].tab,
                    [step |-> "content", ok |-> FALSE, e |-> e,
                     page |-> <<>>, failAt |-> 0])
    /\ UNCHANGED <<mainPc, countries, i, pj, pages, results, exported, nOpened, closes>>
    /\ UNCHANGED <<observe, parseVars, batchVars>>

PC_Content(k) ==
    /\ Running(k)
    /\ PC_ContentFrom(k, IF observe THEN ScrapeInputs ELSE MainInputs)

(***************************************************************************)
(* main                                                                    *)
(***************************************************************************)
\* browser: context.new_page() returns a fresh page, open
NewPage ==
    /\ nOpened' = nOpened + 1
    /\ closes' = [p \in 0..nOpened |-> IF p = nOpened THEN 0 ELSE closes[p]]
    /\ served' = IF observe
                 THEN [p \in 0..nOpened |-> IF p = nOpened THEN <<>> ELSE served[p]]
                 ELSE served

\* browser: page.close() completed on page p
ClosePage(p) == closes' = [closes EXCEPT ![p] = @ + 1]

\* an uncaught exception leaves main: the run ends without reaching line 134
Crash == mainPc' = "crashed"

\* line 119 taking the whole rest of the list
BatchSlice_Rest(cs, start) == Slice(cs, start, Len(cs))

\* line 119: countries[i:i+batch_size]
BatchSlice(cs, start) == Slice(cs, start, start + batch_size)

\* line 115 stepping by one less than the batch size
RangeNext_Short(start) == start + batch_size - 1

\* line 115: the next value of range(0, len(countries), batch_size)
RangeNext(start) == start + batch_size

\* lines 125-126 extending the results from the last task back to the first
RECURSIVE Flatten_Reversed(_)
Flatten_Reversed(rets) ==
    IF rets = <<>> THEN <<>> ELSE Flatten_Reversed(Tail(rets)) \o Head(rets)

\* lines 125-126: "for res in batch_results: results.extend(res)"
RECURSIVE Flatten(_)
Flatten(rets) ==
    IF rets = <<>> THEN <<>> ELSE Head(rets) \o Flatten(Tail(rets))

\* lines 92-95: start playwright, launch the browser, new context, new page
Launch ==
    /\ mainPc = "launch"
    /\ \E ok \in BOOLEAN :
          IF ok THEN NewPage /\ mainPc' = "boot_goto"
                ELSE Crash /\ UNCHANGED <<nOpened, closes, served>>
    /\ UNCHANGED <<countries, i, pj, pages, tasks, results, exported, finished>>
    /\ UNCHANGED <<observe, parseVars, batchVars>>

\* lines 98-99: goto and the 3 s wait on the bootstrap page
BootGoto ==
    /\ mainPc = "boot_goto"
    /\ \E ok \in BOOLEAN : IF ok THEN mainPc' = "boot_cookie" ELSE Crash
    /\ UNCHANGED <<countries, i, pj, pages, tasks, results, exported, nOpened, closes,
                   finished>>
    /\ UNCHANGED <<observe, served, parseVars, batchVars>>

\* lines 100-103: the cookie click on the bootstrap page (page 0)
BootCookie ==
    /\ mainPc = "boot_cookie"
    /\ \E ok \in BOOLEAN :
          /\ mainPc' = AfterCookie(ok, "boot_eval", "crashed")
          /\ Log(0, [step |-> "cookie", ok |-> ok, e |-> <<>>, page |-> <<>>, failAt |-> 0])
    /\ UNCHANGED <<countries, i, pj, pages, tasks, results, exported, nOpened, closes,
                   finished>>
    /\ UNCHANGED <<observe, parseVars, batchVars>>

\* lines 105-106: read allCountries and keep the labels, the page holding
\* one of the lists of "lists"
BootEvaluateFrom(lists) ==
    /\ mainPc = "boot_eval"
    /\ \E ok \in BOOLEAN, cs \in lists :
          IF ok THEN countries' = cs /\ mainPc' = "boot_close"
                ELSE Crash /\ UNCHANGED countries
    /\ UNCHANGED <<i, pj, pages, tasks, results, exported, nOpened, closes, finished>>
    /\ UNCHANGED <<observe, served, parseVars, batchVars>>

BootEvaluate ==
    /\ mainPc = "boot_eval"
    /\ BootEvaluateFrom(CountryLists)

\* lines 107-113: close the bootstrap page; batch_size = 5; results = []
BootClose ==
    /\ mainPc = "boot_close"
    /\ \E ok \in BOOLEAN :
          IF ok THEN ClosePage(0) /\ mainPc' = "loop"
                ELSE Crash /\ UNCHANGED closes
    /\ UNCHANGED <<countries, i, pj, pages, tasks, results, exported, nOpened, finished>>
    /\ UNCHANGED <<observe, served, parseVars, batchVars>>

\* lines 115-117: the head of the outer loop; i holds the next start index
BatchBegin ==
    /\ mainPc = "loop"
    /\ IF i < Len(countries)
       THEN /\ tasks' = <<>>
            /\ pages' = <<>>
            /\ mainPc' = "open"
       ELSE /\ mainPc' = "browser_close"
            /\ UNCHANGED <<tasks, pages>>
    /\ UNCHANGED <<countries, i, pj, results, exported, nOpened, closes, finished>>
    /\ UNCHANGED <<observe, served, parseVars, batchVars>>

\* lines 119-122, one iteration: open a tab for the next country of the
\* slice and create its coroutine; after the last one, line 124 gathers
OpenTab ==
    /\ mainPc = "open"
    /\ LET slice == BatchSlice(countries, i)
           country == slice[Len(pages) + 1]
       IN  \E ok \in BOOLEAN :
              IF ok
              THEN /\ NewPage
                   /\ pages' = Append(pages, nOpened)
                   /\ tasks' = Append(tasks, Coroutine(country, nOpened))
                   /\ mainPc' = IF Len(pages) + 1 = Len(slice) THEN "gather" ELSE "open"
              ELSE /\ Crash
                   /\ UNCHANGED <<nOpened, closes, served, pages, tasks>>
    /\ pj' = 0
    /\ UNCHANGED <<countries, i, results, exported, finished>>
    /\ UNCHANGED <<observe, parseVars, batchVars>>

\* line 124 returning as soon as one coroutine has returned
JoinReady_Any(ts) == \E k \in DOMAIN ts : ts[k].pc = "done"

\* line 124: asyncio.gather returns once every coroutine has returned
JoinReady(ts) == \A k \in DOMAIN ts : ts[k].pc = "done"

\* lines 124-126: the results of gather are in the order of its arguments;
\* an exception of a coroutine is raised in main as soon as it occurs
Gather ==
    /\ mainPc = "gather"
    /\ IF \E k \in DOMAIN tasks : tasks[k].pc = "raised"
       THEN Crash /\ UNCHANGED results
       ELSE /\ JoinReady(tasks)
            /\ results' = results \o Flatten([k \in DOMAIN tasks |-> tasks[k].ret])
            /\ mainPc' = "closing"
    /\ UNCHANGED <<countries, i, pj, pages, tasks, exported, nOpened, closes, finished>>
    /\ UNCHANGED <<observe, served, parseVars, batchVars>>

\* line 128 closing the first tab of the batch at every iteration
PageToClose_First(ps, j) == ps[1]

\* line 128: "for p in pages", iteration j + 1
PageToClose(ps, j) == ps[j + 1]

\* lines 128-129, one iteration: close the next tab of the batch; after the
\* last one the outer loop takes its next index
CloseTab ==
    /\ mainPc = "closing"
    /\ \E ok \in BOOLEAN :
          IF ok
          THEN /\ ClosePage(PageToClose(pages, pj))
               /\ pj' = pj + 1
               /\ IF pj + 1 = Len(pages)
                  THEN mainPc' = "loop" /\ i' = RangeNext(i)
                  ELSE UNCHANGED <<mainPc, i>>
          ELSE Crash /\ UNCHANGED <<closes, pj, i>>
    /\ UNCHANGED <<countries, pages, tasks, results, exported, nOpened, finished>>
    /\ UNCHANGED <<observe, served, parseVars, batchVars>>

\* line 131
BrowserClose ==
    /\ mainPc = "browser_close"
    /\ \E ok \in BOOLEAN : IF ok THEN mainPc' = "export" ELSE Crash
    /\ UNCHANGED <<countries, i, pj, pages, tasks, results, exported, nOpened, closes,
                   finished>>
    /\ UNCHANGED <<observe, served, parseVars, batchVars>>

\* lines 134-136: DataFrame(results).to_excel(...)
Export ==
    /\ mainPc = "export"
    /\ \E ok \in BOOLEAN :
          IF ok THEN exported' = Append(exported, results) /\ mainPc' = "done"
                ELSE Crash /\ UNCHANGED exported
    /\ UNCHANGED <<countries, i, pj, pages, tasks, results, nOpened, closes, finished>>
    /\ UNCHANGED <<observe, served, parseVars, batchVars>>

MainIdle ==
    /\ mainPc = "idle"
    /\ countries = <<>>
    /\ i = 0
    /\ pj = 0
    /\ pages = <<>>
    /\ tasks = <<>>
    /\ results = <<>>
    /\ exported = <<>>
    /\ nOpened = 0
    /\ closes = <<>>
    /\ finished = {}
    /\ observe = FALSE
    /\ served = <<>>

ParseIdle == ppc = "idle" /\ price_text = <<>> /\ parsed = <<>>

BatchIdle == bpc = "idle" /\ blist = <<>> /\ bi = 0 /\ bbatches = <<>>

Init ==
    /\ mainPc = "launch"
    /\ countries = <<>>
    /\ i = 0
    /\ pj = 0
    /\ pages = <<>>
    /\ tasks = <<>>
    /\ results = <<>>
    /\ exported = <<>>
    /\ nOpened = 0
    /\ closes = <<>>
    /\ finished = {}
    /\ observe = FALSE
    /\ served = <<>>
    /\ ParseIdle
    /\ BatchIdle

Next ==
    \/ Launch
    \/ BootGoto
    \/ BootCookie
    \/ BootEvaluate
    \/ BootClose
    \/ BatchBegin
    \/ OpenTab
    \/ \E k \in 1..batch_size : PC_Goto(k)
    \/ \E k \in 1..batch_size : PC_Cookie(k)
    \/ \E k \in 1..batch_size : PC_Select(k)
    \/ \E k \in 1..batch_size : PC_Input(k)
    \/ \E k \in 1..batch_size : PC_Content(k)
    \/ Gather
    \/ CloseTab
    \/ BrowserClose
    \/ Export

\* a run of main against every behaviour of the browser
Spec == Init /\ [][Next]_vars

(***************************************************************************)
(* SpecScrape: one call of process_country, observed                       *)
(***************************************************************************)
\* main has read a one-country list, closed the bootstrap page, opened the
\* tab (page 1) and gathered the coroutine; the run is followed until the
\* records returned are in "results"
ScrapeInit ==
    /\ mainPc = "gather"
    /\ \E c \in {"Canada", "Wakanda"} :
          /\ countries = <<c>>
          /\ tasks = <<Coroutine(c, 1)>>
    /\ i = 0
    /\ pj = 0
    /\ pages = <<1>>
    /\ results = <<>>
    /\ exported = <<>>
    /\ nOpened = 2
    /\ closes = [p \in 0..1 |-> IF p = 0 THEN 1 ELSE 0]
    /\ finished = {}
    /\ observe = TRUE
    /\ served = [p \in 0..1 |-> <<>>]
    /\ ParseIdle
    /\ BatchIdle

ScrapeNext ==
    \/ PC_Goto(1)
    \/ PC_Cookie(1)
    \/ PC_Select(1)
    \/ PC_Input(1)
    \/ PC_Content(1)
    \/ Gather

SpecScrape == ScrapeInit /\ [][ScrapeNext]_vars

(***************************************************************************)
(* SpecTrace: a run of main on a short country list, every answer of the   *)
(* browser to the cookie click and to the calls of the scrapes logged      *)
(***************************************************************************)
\* the lists the page holds in a logged run
TraceLists == { <<>>, <<"Canada">>, <<"Canada", "Wakanda">> }

TraceInit ==
    /\ mainPc = "launch"
    /\ countries = <<>>
    /\ i = 0
    /\ pj = 0
    /\ pages = <<>>
    /\ tasks = <<>>
    /\ results = <<>>
    /\ exported = <<>>
    /\ nOpened = 0
    /\ closes = <<>>
    /\ finished = {}
    /\ observe = TRUE
    /\ served = <<>>
    /\ ParseIdle
    /\ BatchIdle

TraceEvaluate ==
    /\ mainPc = "boot_eval"
    /\ BootEvaluateFrom(TraceLists)

TraceContent(k) ==
    /\ Running(k)
    /\ PC_ContentFrom(k, MainInputs)

TraceNext ==
    \/ Launch
    \/ BootGoto
    \/ BootCookie
    \/ TraceEvaluate
    \/ BootClose
    \/ BatchBegin
    \/ OpenTab
    \/ \E k \in 1..batch_size : PC_Goto(k)
    \/ \E k \in 1..batch_size : PC_Cookie(k)
    \/ \E k \in 1..batch_size : PC_Select(k)
    \/ \E k \in 1..batch_size : PC_Input(k)
    \/ \E k \in 1..batch_size : TraceContent(k)
    \/ Gather
    \/ CloseTab
    \/ BrowserClose
    \/ Export

SpecTrace == TraceInit /\ [][TraceNext]_vars

(***************************************************************************)
(* SpecParse: extract_price_details applied to bounded inputs              *)
(***************************************************************************)
ParseInit ==
    /\ ppc = "call"
    /\ price_text \in ParseInputs
    /\ parsed = <<>>
    /\ MainIdle
    /\ BatchIdle

Extract ==
    /\ ppc = "call"
    /\ parsed' = extract_price_details(price_text)
    /\ ppc' = "ret"
    /\ UNCHANGED <<price_text, mainVars, batchVars>>

SpecParse == ParseInit /\ [][Extract]_vars

(***************************************************************************)
(* SpecBatch: the loops of lines 115-122 on lists of up to MaxListLen      *)
(* countries, the scrapes left out                                         *)
(***************************************************************************)
\* bound: length of the country list
MaxListLen == 13

BatchInit ==
    /\ bpc = "loop"
    /\ blist \in {[k \in 1..n |-> k] : n \in 0..MaxListLen}
    /\ bi = 0
    /\ bbatches = <<>>
    /\ MainIdle
    /\ ParseIdle

\* lines 115-117: the head of the outer loop
B_Begin ==
    /\ bpc = "loop"
    /\ IF bi < Len(blist)
       THEN bpc' = "open" /\ bbatches' = Append(bbatches, <<>>)
       ELSE bpc' = "done" /\ UNCHANGED bbatches
    /\ UNCHANGED <<blist, bi, mainVars, parseVars>>

\* lines 119-122, one iteration; after the last one the batch runs and the
\* outer loop takes its next index
B_Open ==
    /\ bpc = "open"
    /\ LET slice == BatchSlice(blist, bi)
           cur == bbatches[Len(bbatches)]
       IN  /\ bbatches' = [bbatches EXCEPT ![Len(bbatches)] = Append(cur, slice[Len(cur) + 1])]
           /\ IF Len(cur) + 1 = Len(slice)
              THEN bpc' = "loop" /\ bi' = RangeNext(bi)
              ELSE UNCHANGED <<bpc, bi>>
    /\ UNCHANGED <<blist, mainVars, parseVars>>

SpecBatch == BatchInit /\ [][B_Begin \/ B_Open]_vars

(***************************************************************************)
(* Properties                                                              *)
(***************************************************************************)
\* the Country fields of a list of records, runs of equal neighbours
\* collapsed to one
RECURSIVE CountryGroups(_)
CountryGroups(rs) ==
    IF rs = <<>>
    THEN <<>>
    ELSE LET rest == CountryGroups(Tail(rs))
         IN  IF rest # <<>> /\ rest[1] = Head(rs).Country
             THEN rest
             ELSE <<Head(rs).Country>> \o rest

\* the tabs are pages 1, 2, ... in the order of the country list (page 0 is
\* the bootstrap page): the batch a tab belongs to, counted from 0
BatchOfTab(p) == (p - 1) \div batch_size

OpenPages == {p \in DOMAIN closes : closes[p] = 0}

IsPlan(r, plan) == r.Plan = plan

\* C1: whatever the order in which the scrapes of a batch complete, the
\* list handed to the export has, for every country of the list, at least
\* one record, the records of a country are neighbours, and the groups come
\* in the order of the country list (the labels of the list are distinct).
C1_ExportInListOrder ==
    \A x \in DOMAIN exported : CountryGroups(exported[x]) = countries

\* C1 happens: a six-country run was exported, with a country of two rows
\* and a country whose scrape failed
C1_Witness ==
    /\ mainPc = "done"
    /\ Len(countries) = MaxCountries
    /\ Len(exported) = 1
    /\ \E a, b \in DOMAIN exported[1] :
          /\ a # b
          /\ exported[1][a].Country = exported[1][b].Country
    /\ \E a \in DOMAIN exported[1] : IsPlan(exported[1][a], S_ERROR)

\* C2: whenever a tab exists, every tab of an earlier batch has been closed
\* and its scrape has returned: no tab of batch N+1 is opened, and no scrape
\* of batch N+1 starts, before batch N is joined and its tabs are closed.
C2_BatchBarrier ==
    \A p, q \in 1..(nOpened - 1) :
        BatchOfTab(q) < BatchOfTab(p) => closes[q] >= 1 /\ q \in finished

\* C2 happens: the first tab of the second batch is open and its scrape runs
C2_Witness ==
    /\ mainPc = "gather"
    /\ nOpened - 1 = batch_size + 1
    /\ closes[batch_size + 1] = 0
    /\ tasks[1].pc = "select"

\* C3: at most batch_size pages are open at any time, the bootstrap page
\* counted.
C3_OpenPagesBounded == Cardinality(OpenPages) <= batch_size

\* C3 happens: a full batch of tabs is open
C3_Witness == Cardinality(OpenPages) = batch_size /\ mainPc = "gather"

\* the observed scrape (on page 1) and what the browser answered last
TheTask == tasks[1]
LastServed == served[1][Len(served[1])]

\* the last browser call raised, or reading an item of the list raised
ScrapeFailed == served[1] # <<>> /\ (~LastServed.ok \/ LastServed.failAt > 0)

\* the rows that reading the items before the failing one had collected
RowsBeforeFailure ==
    {k \in 1..(LastServed.failAt - 1) :
        \E c \in DOMAIN ListItems(LastServed.page)[k] :
            ListItems(LastServed.page)[k][c] = ":"}

\* C4: process_country never raises; when a step fails (goto, the selector,
\* the input, content, the parse) it returns exactly one record, with Plan
\* "ERROR", the message of the exception in Price and the other fields
\* empty, and none of the rows collected before the failure.
C4_FailureIsOneErrorRecord ==
    /\ TheTask.pc # "raised"
    /\ TheTask.pc = "done" /\ ScrapeFailed
          => TheTask.ret =
                << [Country |-> TheTask.country, Plan |-> S_ERROR,
                    Price |-> LastServed.e, Currency |-> <<>>,
                    Amount |-> <<>>, Note |-> <<>>] >>

\* C4 happens: reading the second item raised after the first had given a row
C4_Witness ==
    /\ TheTask.pc = "done"
    /\ ScrapeFailed
    /\ LastServed.failAt = 2
    /\ RowsBeforeFailure # {}
    /\ LastServed.e \in ExcMessages

\* C5: every run ends with the export done exactly once, on a list that has
\* a record for every country read from the page, whichever browser call
\* of main or of a scrape fails.
C5_RunAlwaysExports ==
    mainPc \in {"done", "crashed"}
        => /\ Len(exported) = 1
           /\ \A n \in DOMAIN countries :
                 \E x \in DOMAIN exported[1] : exported[1][x].Country = countries[n]

IsErrorRet(ret) == Len(ret) = 1 /\ ret[1].Plan = S_ERROR

StepOf(k) == PC_Goto(k) \/ PC_Cookie(k) \/ PC_Select(k) \/ PC_Input(k) \/ PC_Content(k)

\* C6: a scrape that fails leaves main in the join and its siblings as they
\* were; every scrape that has not returned can take its next step whatever
\* its siblings did; the join ends only when every scrape has returned, and
\* then appends to the results what each scrape returned, in launch order.
C6_FailureContained ==
    /\ [](\A k \in DOMAIN tasks :
             mainPc = "gather" /\ tasks[k].pc \notin {"done", "raised"}
                 => ENABLED StepOf(k))
    /\ [][ /\ \A k \in DOMAIN tasks :
                 /\ mainPc = "gather"
                 /\ tasks[k].pc \notin {"done", "raised"}
                 /\ tasks'[k].pc = "done"
                 /\ IsErrorRet(tasks'[k].ret)
                 => /\ mainPc' = "gather"
                    /\ \A j \in DOMAIN tasks : j # k => tasks'[j] = tasks[j]
           /\ mainPc = "gather" /\ mainPc' # "gather"
                 => /\ \A k \in DOMAIN tasks : tasks[k].pc = "done"
                    /\ mainPc' = "closing"
                    /\ \E rest \in {SubSeq(results', Len(results) + 1, Len(results'))} :
                          /\ results' = results \o rest
                          /\ CountryGroups(rest) = [k \in DOMAIN tasks |-> tasks[k].country]
                          /\ \A k \in DOMAIN tasks :
                                SelectSeq(rest, LAMBDA r : r.Country = tasks[k].country)
                                    = tasks[k].ret
         ]_vars

\* C6 happens: a batch was joined in which one scrape failed and a sibling
\* launched before it and one launched after it returned plan rows
C6_Witness ==
    /\ mainPc = "closing"
    /\ Len(tasks) = batch_size
    /\ IsErrorRet(tasks[2].ret)
    /\ Len(tasks[1].ret) = 2
    /\ Len(tasks[3].ret) = 2

\* ceil(n / batch_size)
BatchCount(n) == (n + batch_size - 1) \div batch_size

\* C7: a list of n countries gives ceil(n/5) batches, each of 5 countries
\* but the last, which has 1 to 5; the batches are consecutive stretches of
\* the list in its order, so every country is in exactly one batch.
C7_Partition ==
    bpc = "done"
        => /\ Len(bbatches) = BatchCount(Len(blist))
           /\ \A b \in DOMAIN bbatches :
                 /\ b < Len(bbatches) => Len(bbatches[b]) = 5
                 /\ Len(bbatches[b]) \in 1..5
                 /\ \A j \in DOMAIN bbatches[b] :
                       /\ 5 * (b - 1) + j \in DOMAIN blist
                       /\ bbatches[b][j] = blist[5 * (b - 1) + j]
           /\ \A n \in DOMAIN blist :
                 \E b \in DOMAIN bbatches : \E j \in DOMAIN bbatches[b] :
                     5 * (b - 1) + j = n

\* C7 happens: 12 countries were split into batches of 5, 5 and 2
C7_Witness ==
    /\ bpc = "done"
    /\ Len(blist) = 12
    /\ [b \in DOMAIN bbatches |-> Len(bbatches[b])] = <<5, 5, 2>>

\* the tabs of the same batch as tab p
BatchMates(p) == {q \in 1..Len(countries) : BatchOfTab(q) = BatchOfTab(p)}

\* C8: no page is closed twice; a tab is closed only after every scrape of
\* its batch has returned (so no scrape works on a closed tab); when the
\* cleanup of a batch is over, and when the browser is closed at the end,
\* every page opened so far has been closed exactly once, whatever the
\* scrapes returned.
C8_TabsClosedOnce ==
    /\ \A p \in DOMAIN closes : closes[p] <= 1
    /\ \A p \in 1..(nOpened - 1) :
          closes[p] >= 1 => \A q \in BatchMates(p) : q \in finished
    /\ mainPc \in {"loop", "browser_close", "export", "done"}
          => \A p \in 0..(nOpened - 1) : closes[p] = 1

\* C8 happens: the run ended with pages opened for scrapes that returned
\* plan rows, an N/A record and an ERROR record, all closed
C8_Witness ==
    /\ mainPc = "done"
    /\ nOpened > batch_size + 1
    /\ \A p \in 0..(nOpened - 1) : closes[p] = 1
    /\ \E x \in DOMAIN results : results[x].Plan = S_ERROR
    /\ \E x \in DOMAIN results : results[x].Plan = S_NA
    /\ \E x \in DOMAIN results : results[x].Plan \notin {S_ERROR, S_NA}

\* what the claim says of a document, read off the document itself
HasPricingHeading(doc) ==
    \E k \in DOMAIN doc : doc[k].tag = "h3" /\ Contains(doc[k].text, S_Pricing)

FirstPricingHeading(doc) ==
    CHOOSE k \in DOMAIN doc :
        /\ doc[k].tag = "h3" /\ Contains(doc[k].text, S_Pricing)
        /\ \A j \in 1..(k - 1) : ~(doc[j].tag = "h3" /\ Contains(doc[j].text, S_Pricing))

HasListAfterHeading(doc) ==
    HasPricingHeading(doc)
        /\ \E u \in DOMAIN doc : u > FirstPricingHeading(doc) /\ doc[u].tag = "ul"

FirstListAfterHeading(doc) ==
    CHOOSE u \in DOMAIN doc :
        /\ u > FirstPricingHeading(doc) /\ doc[u].tag = "ul"
        /\ \A j \in (FirstPricingHeading(doc) + 1)..(u - 1) : doc[j].tag # "ul"

HasColon(text) == \E c \in DOMAIN text : text[c] = ":"

NoPricedItem(doc) ==
    \/ ~HasPricingHeading(doc)
    \/ ~HasListAfterHeading(doc)
    \/ \A n \in DOMAIN doc[FirstListAfterHeading(doc)].items :
          ~HasColon(doc[FirstListAfterHeading(doc)].items[n])

\* C9: a scrape that does not fail returns at least one record; when the
\* document has no h3 containing "Pricing", or no list after it, or no item
\* with a colon in that list, it returns exactly the N/A record.
C9_FallbackRecord ==
    TheTask.pc = "done" /\ ~ScrapeFailed
        => /\ TheTask.ret # <<>>
           /\ NoPricedItem(LastServed.page)
                 => TheTask.ret =
                       << [Country |-> TheTask.country, Plan |-> S_NA,
                           Price |-> S_NA, Currency |-> <<>>,
                           Amount |-> <<>>, Note |-> <<>>] >>

\* C9 happens: the heading and its list were found, the list had items,
\* none with a colon, and the scrape returned
C9_Witness ==
    /\ TheTask.pc = "done"
    /\ ~ScrapeFailed
    /\ HasListAfterHeading(LastServed.page)
    /\ LastServed.page[FirstListAfterHeading(LastServed.page)].items # <<>>
    /\ NoPricedItem(LastServed.page)

\* "month" occurs in the text, letter case ignored
HasMonthAnyCase(text) ==
    \E p \in 1..(Len(text) - 4) :
        /\ text[p] \in {"m", "M"}
        /\ text[p + 1] \in {"o", "O"}
        /\ text[p + 2] \in {"n", "N"}
        /\ text[p + 3] \in {"t", "T"}
        /\ text[p + 4] \in {"h", "H"}

\* C10: for an input that is empty or has no "month" in any letter case,
\* extract_price_details returns ("Unknown", "", input), the input as given.
C10_NoMonthPassthrough ==
    ppc = "ret" /\ ~HasMonthAnyCase(price_text)
        => parsed = <<S_Unknown, <<>>, price_text>>

\* C10 happens: an input without "month" that starts and ends with a space
\* and has a digit and a currency sign went through the function
C10_Witness ==
    /\ ppc = "ret"
    /\ ~HasMonthAnyCase(price_text)
    /\ Len(price_text) >= 3
    /\ price_text[1] = " "
    /\ price_text[Len(price_text)] = " "
    /\ parsed[3] = price_text

\* C11: extract_price_details("€13,99 / Month for new members") returns
\* ("€", "13.99", "for new members"): the marker is matched whatever its
\* letter case and with spaces after the slash, and the comma-decimal
\* amount comes out as "13.99".
C11_EuroExample ==
    ppc = "ret" /\ price_text = Ex_Euro
        => parsed = << <<"€">>, <<"1","3",".","9","9">>,
                     <<"f","o","r"," ","n","e","w"," ","m","e","m","b","e",
                       "r","s">> >>
S_Timeout == <<"T","i","m","e","o","u","t">>

\* the last answer the browser gave on page p
LastOn(p) == served[p][Len(served[p])]

\* the scenario: the list is Canada, Wakanda; on Canada's tab (page 1) every
\* call succeeded and the document has a Pricing heading followed by a list
\* of the single item "Standard: $16.49/month"; on Wakanda's tab (page 2)
\* the navigation raised a timeout
CanadaWakandaScenario ==
    /\ countries = <<"Canada", "Wakanda">>
    /\ DOMAIN served = 0..2
    /\ served[1] # <<>>
    /\ LastOn(1).step = "content" /\ LastOn(1).ok /\ LastOn(1).failAt = 0
    /\ LastOn(1).page =
          << [tag |-> "h3", text |-> S_Pricing, items |-> <<>>],
             [tag |-> "ul", text |-> <<>>, items |-> <<
                <<"S","t","a","n","d","a","r","d",":"," ","$","1","6",".",
                  "4","9","/","m","o","n","t","h">> >>] >>
    /\ Len(served[2]) = 1
    /\ LastOn(2).step = "goto" /\ ~LastOn(2).ok /\ LastOn(2).e = S_Timeout

\* C12: in that scenario the run exports exactly two rows, in this order:
\* {Canada, Standard, "$16.49/month", "$", "16.49", ""} and
\* {Wakanda, ERROR, the timeout message, "", "", ""}.
C12_EndToEnd ==
    mainPc = "done" /\ CanadaWakandaScenario
        => exported =
              << << [Country |-> "Canada",
                     Plan |-> <<"S","t","a","n","d","a","r","d">>,
                     Price |-> <<"$","1","6",".","4","9","/","m","o","n","t","h">>,
                     Currency |-> <<"$">>,
                     Amount |-> <<"1","6",".","4","9">>,
                     Note |-> <<>>],
                    [Country |-> "Wakanda",
                     Plan |-> S_ERROR,
                     Price |-> S_Timeout,
                     Currency |-> <<>>,
                     Amount |-> <<>>,
                     Note |-> <<>>] >> >>

\* C12 happens: the run of the scenario ended with its export, Canada's
\* scrape having made its five browser calls and Wakanda's only the first
C12_Witness ==
    /\ mainPc = "done"
    /\ CanadaWakandaScenario
    /\ Len(exported) = 1
    /\ Len(served[1]) = 5
\* a month-billing marker starts at position p of the text: "/", optional
\* whitespace, "month" in any letter case
MarkerAt(text, p) ==
    /\ text[p] = "/"
    /\ \E q \in (p + 1)..(Len(text) - 4) :
          /\ \A j \in (p + 1)..(q - 1) : text[j] \in {" ", "\t", "\n"}
          /\ text[q] \in {"m", "M"}
          /\ text[q + 1] \in {"o", "O"}
          /\ text[q + 2] \in {"n", "N"}
          /\ text[q + 3] \in {"t", "T"}
          /\ text[q + 4] \in {"h", "H"}

HasMarker(text) == \E p \in DOMAIN text : MarkerAt(text, p)

\* the text before the first marker; the whole text when there is none
BeforeMarker(text) ==
    IF HasMarker(text)
    THEN SubSeq(text, 1,
                (CHOOSE p \in DOMAIN text :
                    MarkerAt(text, p) /\ \A j \in 1..(p - 1) : ~MarkerAt(text, j)) - 1)
    ELSE text

\* a character of a currency token: not a digit, whitespace, comma or period
IsTokenChar(c) ==
    c \notin {"0","1","2","3","4","5","6","7","8","9"," ","\t","\n",",","."}

\* no currency token stands before the number of the text (before its end
\* when it has no number)
NoTokenBeforeNumber(text) ==
    \A t \in DOMAIN text :
        IsTokenChar(text[t])
            => \E n \in 1..(t - 1) :
                  text[n] \in {"0","1","2","3","4","5","6","7","8","9",",","."}

\* the currency token of the text is the word "Unknown"
TokenIsUnknown(text) ==
    \E a \in DOMAIN text :
        /\ \A j \in 1..(a - 1) : ~IsTokenChar(text[j])
        /\ a + 6 <= Len(text)
        /\ SubSeq(text, a, a + 6) = <<"U","n","k","n","o","w","n">>
        /\ a + 7 <= Len(text) => ~IsTokenChar(text[a + 7])

\* C13 as stated: in every record of the results, Currency is "Unknown"
\* only when the Price text is non-empty, contains a month-billing marker
\* and has no currency token before the number.
C13_UnknownOnlyWithMarker ==
    \A x \in DOMAIN results :
        results[x].Currency = <<"U","n","k","n","o","w","n">>
            => /\ results[x].Price # <<>>
               /\ HasMarker(results[x].Price)
               /\ NoTokenBeforeNumber(BeforeMarker(results[x].Price))

\* C13 amended: in every record of the results, Currency is "Unknown" only
\* when the Price text is empty, or has no "month" in any letter case, or
\* has no currency token before the number of its price segment (the text
\* before the first marker), or has the word "Unknown" as that token.
C13_UnknownOnlyWhen ==
    \A x \in DOMAIN results :
        results[x].Currency = <<"U","n","k","n","o","w","n">>
            => \/ results[x].Price = <<>>
               \/ ~HasMonthAnyCase(results[x].Price)
               \/ NoTokenBeforeNumber(BeforeMarker(results[x].Price))
               \/ TokenIsUnknown(BeforeMarker(results[x].Price))

\* C13 happens: the results hold a record with Currency "Unknown" whose
\* Price has the marker and no currency token, and one whose Price has no
\* "month" at all
C13_Witness ==
    /\ \E x \in DOMAIN results :
          /\ results[x].Currency = <<"U","n","k","n","o","w","n">>
          /\ HasMarker(results[x].Price)
          /\ NoTokenBeforeNumber(BeforeMarker(results[x].Price))
    /\ \E x \in DOMAIN results :
          /\ results[x].Currency = <<"U","n","k","n","o","w","n">>
          /\ ~HasMonthAnyCase(results[x].Price)
          /\ results[x].Price # <<>>
HasComma(text) == \E c \in DOMAIN text : text[c] = ","

\* C14: no record of the results, and none of an exported list, has a comma
\* in its Amount field, be it a plan row, an N/A row or an ERROR row.
C14_AmountHasNoComma ==
    /\ \A x \in DOMAIN results : ~HasComma(results[x].Amount)
    /\ \A n \in DOMAIN exported :
          \A x \in DOMAIN exported[n] : ~HasComma(exported[n][x].Amount)

\* C14 happens: the exported list has a plan row whose price is written
\* with a comma and whose Amount has digits, an N/A row and an ERROR row
C14_Witness ==
    /\ mainPc = "done"
    /\ Len(exported) = 1
    /\ \E x \in DOMAIN exported[1] :
          /\ HasComma(exported[1][x].Price)
          /\ exported[1][x].Amount = <<"1","9","9","9">>
    /\ \E x \in DOMAIN exported[1] : exported[1][x].Plan = S_NA
    /\ \E x \in DOMAIN exported[1] : exported[1][x].Plan = S_ERROR
\* "month" in any letter case stands at position q of the text, after the
\* "/" at position p and whitespace only
MonthAfterSlash(text, p, q) ==
    /\ q \in (p + 1)..(Len(text) - 4)
    /\ \A j \in (p + 1)..(q - 1) : text[j] \in {" ", "\t", "\n"}
    /\ text[q] \in {"m", "M"}
    /\ text[q + 1] \in {"o", "O"}
    /\ text[q + 2] \in {"n", "N"}
    /\ text[q + 3] \in {"t", "T"}
    /\ text[q + 4] \in {"h", "H"}

\* everything after the first marker of a text that has one
AfterMarker(text) ==
    LET p == CHOOSE k \in DOMAIN text :
                 MarkerAt(text, k) /\ \A j \in 1..(k - 1) : ~MarkerAt(text, j)
        q == CHOOSE k \in DOMAIN text : MonthAfterSlash(text, p, k)
    IN  SubSeq(text, q + 5, Len(text))

\* C15: for an input with a month-billing marker the returned note is
\* everything after the FIRST marker, trimmed, later markers and the text
\* that follows them included, and empty when nothing follows.
C15_NoteIsRestAfterFirstMarker ==
    ppc = "ret" /\ HasMarker(price_text)
        => parsed[3] = Strip(AfterMarker(price_text))
DigitChars == {"0","1","2","3","4","5","6","7","8","9"}

\* the first contiguous run of digits, commas and periods of the text
FirstNumberRun(text) ==
    IF \A k \in DOMAIN text : text[k] \notin DigitChars \cup {",", "."}
    THEN <<>>
    ELSE LET a == CHOOSE k \in DOMAIN text :
                      /\ text[k] \in DigitChars \cup {",", "."}
                      /\ \A j \in 1..(k - 1) : text[j] \notin DigitChars \cup {",", "."}
             b == CHOOSE k \in a..Len(text) :
                      /\ \A j \in a..k : text[j] \in DigitChars \cup {",", "."}
                      /\ k < Len(text) => text[k + 1] \notin DigitChars \cup {",", "."}
         IN  SubSeq(text, a, b)

WithoutCommas(text) == SelectSeq(text, LAMBDA c : c # ",")

HasDigit(text) == \E k \in DOMAIN text : text[k] \in DigitChars

\* C16: for an input containing "month" the amount is the first run of
\* digits, commas and periods of the price segment, its commas removed, and
\* it is empty whenever the price segment has no digit.
C16_AmountIsNumberOrEmpty ==
    ppc = "ret" /\ HasMonthAnyCase(price_text)
        => IF HasDigit(BeforeMarker(price_text))
           THEN parsed[2] = WithoutCommas(FirstNumberRun(BeforeMarker(price_text)))
           ELSE parsed[2] = <<>>
\* the cookie click raised on page p
CookieFailedOn(p) ==
    \E n \in DOMAIN served[p] : served[p][n].step = "cookie" /\ ~served[p][n].ok

\* the last call made on page p raised, or reading an item of its list did
LastFailedOn(p) ==
    served[p] # <<>> /\ (~LastOn(p).ok \/ LastOn(p).failAt > 0)

\* C17: the step of the cookie click, on the bootstrap page and in a
\* scrape, only moves control to the next statement, whether the click
\* succeeded or raised: no record is added, nothing is returned, main does
\* not end. A scrape that has returned gives the ERROR record exactly when
\* the last call it made was not the cookie click and raised, so a failed
\* click of the selector gives the ERROR record with its message and a
\* failed cookie click changes nothing of what the later steps give.
C17_CookieFailureSwallowed ==
    /\ [](\A k \in DOMAIN tasks :
             tasks[k].pc = "done"
                 => /\ LastOn(tasks[k].tab).step # "cookie"
                    /\ LastFailedOn(tasks[k].tab)
                          <=> (\E x \in DOMAIN tasks[k].ret : tasks[k].ret[x].Plan = S_ERROR)
                    /\ LastOn(tasks[k].tab).step = "select"
                          => tasks[k].ret =
                                << [Country |-> tasks[k].country, Plan |-> S_ERROR,
                                    Price |-> LastOn(tasks[k].tab).e, Currency |-> <<>>,
                                    Amount |-> <<>>, Note |-> <<>>] >>)
    /\ [][ /\ mainPc = "boot_cookie"
                 => /\ mainPc' = "boot_eval"
                    /\ <<countries, pages, tasks, results, exported>>'
                          = <<countries, pages, tasks, results, exported>>
           /\ \A k \in DOMAIN tasks :
                 tasks[k].pc = "cookie" /\ tasks'[k] # tasks[k]
                     => /\ tasks' = [tasks EXCEPT ![k].pc = "select"]
                        /\ <<mainPc, results, exported>>' = <<mainPc, results, exported>>
         ]_vars

\* C17 happens: the run ended with its export after the cookie click had
\* raised on the bootstrap page and in both scrapes; the first scrape went
\* on and returned a plan row, the second failed at the selector
C17_Witness ==
    /\ mainPc = "done"
    /\ Len(exported) = 1
    /\ DOMAIN served = 0..2
    /\ CookieFailedOn(0)
    /\ CookieFailedOn(1)
    /\ CookieFailedOn(2)
    /\ ~LastFailedOn(1)
    /\ \E x \in DOMAIN exported[1] :
          exported[1][x].Country = "Canada" /\ exported[1][x].Plan \notin {S_ERROR, S_NA}
    /\ LastOn(2).step = "select" /\ ~LastOn(2).ok
    /\ \E x \in DOMAIN exported[1] :
          exported[1][x].Country = "Wakanda" /\ exported[1][x].Plan = S_ERROR
\* the items with a colon of the first list after the Pricing heading
PricedItems(doc) ==
    IF HasListAfterHeading(doc)
    THEN SelectSeq(doc[FirstListAfterHeading(doc)].items, HasColon)
    ELSE <<>>

FirstColon(text) ==
    CHOOSE c \in DOMAIN text : text[c] = ":" /\ \A j \in 1..(c - 1) : text[j] # ":"

BeforeColon(text) == SubSeq(text, 1, FirstColon(text) - 1)
AfterColon(text) == SubSeq(text, FirstColon(text) + 1, Len(text))

\* C18 as stated: a scrape that does not fail returns one record per item
\* with a colon, in the order of the list, none for the other items; Plan
\* is the text before the first colon and Price the text after it as it
\* stands in the item, leading and trailing whitespace kept.
C18_PriceIsRawText ==
    TheTask.pc = "done" /\ ~ScrapeFailed /\ PricedItems(LastServed.page) # <<>>
        => /\ Len(TheTask.ret) = Len(PricedItems(LastServed.page))
           /\ \A n \in DOMAIN TheTask.ret :
                 /\ TheTask.ret[n].Plan = Strip(BeforeColon(PricedItems(LastServed.page)[n]))
                 /\ TheTask.ret[n].Price = AfterColon(PricedItems(LastServed.page)[n])

\* C18 amended: the same, Price being the text after the first colon with
\* its leading and trailing whitespace removed, and Plan the text before
\* the first colon with its leading and trailing whitespace removed.
C18_PriceIsTrimmedText ==
    TheTask.pc = "done" /\ ~ScrapeFailed /\ PricedItems(LastServed.page) # <<>>
        => /\ Len(TheTask.ret) = Len(PricedItems(LastServed.page))
           /\ \A n \in DOMAIN TheTask.ret :
                 /\ TheTask.ret[n].Plan = Strip(BeforeColon(PricedItems(LastServed.page)[n]))
                 /\ TheTask.ret[n].Price = Strip(AfterColon(PricedItems(LastServed.page)[n]))

\* C18 happens: a scrape returned from a list of an item without colon and
\* an item whose text has whitespace after the colon
C18_Witness ==
    /\ TheTask.pc = "done"
    /\ ~ScrapeFailed
    /\ Len(ListItems(LastServed.page)) = 2
    /\ Len(PricedItems(LastServed.page)) = 1
    /\ AfterColon(PricedItems(LastServed.page)[1])
          # Strip(AfterColon(PricedItems(LastServed.page)[1]))
\* C19: the k-th scrape of a batch is the scrape of the k-th country of the
\* batch, on the tab opened for it, which no other scrape of the run uses;
\* no scrape starts before every tab of its batch is opened; a scrape that
\* has returned never runs again; one tab per country is opened, and when
\* the loop is over the scrape of every one of them has returned once.
C19_OneScrapePerCountry ==
    /\ [](/\ mainPc \in {"open", "gather", "closing"}
             => \A k \in DOMAIN tasks :
                   /\ tasks[k].country = countries[i + k]
                   /\ tasks[k].tab = i + k
                   /\ tasks[k].tab = pages[k]
                   /\ \A j \in DOMAIN tasks : j # k => tasks[j].tab # tasks[k].tab
                   /\ tasks[k].tab \in finished <=> tasks[k].pc \in {"done", "raised"}
          /\ mainPc = "open" => \A k \in DOMAIN tasks : tasks[k].pc = "goto"
          /\ nOpened >= 1 => finished \subseteq 1..(nOpened - 1)
          /\ mainPc \notin {"launch", "boot_goto", "boot_cookie", "boot_eval", "crashed"}
             => nOpened - 1 <= Len(countries)
          /\ mainPc \in {"browser_close", "export", "done"}
             => nOpened - 1 = Len(countries) /\ finished = 1..Len(countries))
    /\ [][ /\ \A k \in DOMAIN tasks :
                 tasks[k].pc \in {"done", "raised"} /\ k \in DOMAIN tasks'
                     => tasks'[k] = tasks[k]
           /\ finished \subseteq finished'
           /\ Cardinality(finished' \ finished) <= 1
         ]_vars

\* C19 happens: a run on six countries ended; the scrapes of tabs 1 to 6
\* have all returned, one of them with the ERROR record
C19_Witness ==
    /\ mainPc = "done"
    /\ Len(countries) = 6
    /\ finished = 1..6
    /\ nOpened = 7
    /\ \E x \in DOMAIN results : results[x].Plan = S_ERROR
    /\ Len(exported) = 1
HasErrorRecord(ret) == \E x \in DOMAIN ret : ret[x].Plan = <<"E","R","R","O","R">>

HasNARecord(ret) ==
    \E x \in DOMAIN ret : ret[x].Plan = <<"N","/","A">> /\ ret[x].Price = <<"N","/","A">>

\* C20: whatever the document, the records a scrape returns hold a record
\* with Plan "ERROR" exactly when the scrape raised, a record with Plan
\* "N/A" and Price "N/A" exactly when it did not raise and found no item
\* with a colon, and they are one ERROR record, or one N/A record, or one
\* or more plan records (Plan neither "ERROR" nor "N/A").
C20_PlanTellsFailureFromAbsence ==
    TheTask.pc = "done"
        => /\ HasErrorRecord(TheTask.ret) <=> ScrapeFailed
           /\ HasNARecord(TheTask.ret)
                 <=> (~ScrapeFailed /\ NoPricedItem(LastServed.page))
           /\ \/ Len(TheTask.ret) = 1 /\ HasErrorRecord(TheTask.ret)
              \/ Len(TheTask.ret) = 1 /\ HasNARecord(TheTask.ret)
              \/ /\ Len(TheTask.ret) >= 1
                 /\ \A x \in DOMAIN TheTask.ret :
                       TheTask.ret[x].Plan \notin {<<"E","R","R","O","R">>, <<"N","/","A">>}
====
